---- MODULE Spec2Model ----
(***************************************************************************)
(* AddExpenseScreen (src/src/screens/Expenses/AddExpenseScreen.tsx): the   *)
(* form state of the screen, its feedback slot, the group load started at  *)
(* mount, the settings loads started at every focus-gain, and the submit   *)
(* handler.  Every handler runs to completion on the UI thread, so each is *)
(* one action; an async load is one action per await.                      *)
(***************************************************************************)
EXTENDS Integers, Sequences, FiniteSets, TLC

VARIABLES
    amount, category, description, selectedDate, paymentMethod, group,
    availableGroups, availableCategories, availablePaymentMethods,
    feedbackMessage, isSnackbarVisible, snackbarSuccess,
    groupsLoad, settingsLoads, focusCount, focused,
    visibleCategories, visiblePaymentMethods,
    toasts, uuidCounter, dispatchCount, addedCount, lastExpense, lastThrew,
    amountFills, lastWasSubmit

form == <<amount, category, description, selectedDate, paymentMethod, group>>
lists == <<availableGroups, availableCategories, availablePaymentMethods>>
feedback == <<feedbackMessage, isSnackbarVisible, snackbarSuccess>>
loadState == <<groupsLoad, settingsLoads, focusCount>>
settingsStore == <<visibleCategories, visiblePaymentMethods>>
store == <<uuidCounter, dispatchCount, addedCount, lastExpense, lastThrew>>
vars == <<form, lists, feedback, loadState, focused, settingsStore, toasts,
          store, amountFills, lastWasSubmit>>

----------------------------------------------------------------------------
(* Bounds of the model. *)
MaxDispatch == 2
MaxFills == 2
MaxFocus == 2

Gens == 1..MaxFocus

----------------------------------------------------------------------------
(* Values. *)
undefined == "undefined"
NaN == [nan |-> TRUE]
NoExpense == [none |-> TRUE]

(* Texts are sequences of characters. *)
DigitValue == [c \in {"0", "1", "2", "5"} |->
                 CASE c = "0" -> 0 [] c = "1" -> 1 [] c = "2" -> 2 [] c = "5" -> 5]
IsDigit(c) == c \in DOMAIN DigitValue

AmountTexts == { <<>>, <<"1", "2", ".", "5", "0">>, <<"5", "x">>, <<"x">> }
DescriptionTexts == { <<>>, <<"l", "u", "n", "c", "h">> }
Dates == {"Jan10"}
Instants == {"Jan20"}

(* parseFloat on a text of digits, '.', and other characters: the longest   *)
(* prefix digits [ '.' digits ] is the number, none is NaN.  A number is    *)
(* mant / 10^exp with no trailing zero in the fraction.                     *)
RECURSIVE DigitRun(_, _)
DigitRun(s, i) ==
    IF i <= Len(s) /\ IsDigit(s[i]) THEN <<s[i]>> \o DigitRun(s, i + 1) ELSE <<>>

RECURSIVE DigitsToInt(_)
DigitsToInt(ds) ==
    IF ds = <<>> THEN 0
    ELSE 10 * DigitsToInt(SubSeq(ds, 1, Len(ds) - 1)) + DigitValue[ds[Len(ds)]]

RECURSIVE Normalize(_)
Normalize(n) ==
    IF n.exp > 0 /\ n.mant % 10 = 0
    THEN Normalize([mant |-> n.mant \div 10, exp |-> n.exp - 1])
    ELSE n

RECURSIVE Pow10(_)
Pow10(k) == IF k = 0 THEN 1 ELSE 10 * Pow10(k - 1)

parseFloat(s) ==
    LET int == DigitRun(s, 1)
        dot == Len(int) + 1
        frac == IF dot <= Len(s) /\ s[dot] = "." THEN DigitRun(s, dot + 1) ELSE <<>>
    IN IF int = <<>> /\ frac = <<>> THEN NaN
       ELSE Normalize([mant |-> DigitsToInt(int) * Pow10(Len(frac)) + DigitsToInt(frac),
                       exp |-> Len(frac)])

(* Date.prototype.toISOString: the timestamp string of an instant. *)
toISOString(d) == [iso |-> d]

(* generateUUID of @utils/common: a string unique across all records. *)
generateUUID(counter) == [uuid |-> counter + 1]

First(s) == IF Len(s) = 0 THEN undefined ELSE s[1]

----------------------------------------------------------------------------
(* External data. *)
G1 == [id |-> "g1", name |-> "Home", members |-> 2]
G2 == [id |-> "g2", name |-> "Trip", members |-> 3]
GroupResults == { <<>>, <<G1, G2>>, <<G2>> }

availableCategoriesList ==
    << [id |-> "food", name |-> "Food", icon |-> "a"],
       [id |-> "travel", name |-> "Travel", icon |-> "b"] >>
availablePaymentMethodsList ==
    << [id |-> "cash", name |-> "Cash", icon |-> "c"],
       [id |-> "card", name |-> "Card", icon |-> "d"] >>

(* The settings store at mount, and the flags the user flips later. *)
EmptyMap == [id \in {} |-> TRUE]
InitVisibleCategories == [id \in {"food"} |-> TRUE]
InitVisiblePaymentMethods == [id \in {"cash", "card"} |-> id = "cash"]
ToggledCategories == {"travel"}
ToggledPaymentMethods == {"card"}

Option(o) == [id |-> o.id, name |-> o.name]
MapOptions(s) == [i \in 1..Len(s) |-> Option(s[i])]
Ids(s) == { s[i].id : i \in 1..Len(s) }

(* visibleCategories[category.id]: a missing entry is undefined, falsy. *)
IsVisible(vis, id) == id \in DOMAIN vis /\ vis[id]

VisibleOptions(master, vis) ==
    MapOptions(SelectSeq(master, LAMBDA o : IsVisible(vis, o.id)))

Selections(items) == { <<>> } \cup { <<id>> : id \in Ids(items) }

----------------------------------------------------------------------------
IdleLoad == [pc |-> "idle", visibleCategories |-> EmptyMap,
             visiblePaymentMethods |-> EmptyMap]

(* loadSettings() up to its first await: getVisibleCategories is called. *)
StartedLoad(vis) == [pc |-> "categories", visibleCategories |-> vis,
                     visiblePaymentMethods |-> EmptyMap]

Init ==
    /\ amount = <<>>
    /\ category = <<>>
    /\ description = <<>>
    /\ selectedDate = undefined
    /\ paymentMethod = <<>>
    /\ group = <<>>
    /\ availableGroups = <<>>
    /\ availableCategories = <<>>
    /\ availablePaymentMethods = <<>>
    /\ feedbackMessage = ""
    /\ isSnackbarVisible = FALSE
    /\ snackbarSuccess = TRUE
    /\ groupsLoad = "pending"
    /\ visibleCategories = InitVisibleCategories
    /\ visiblePaymentMethods = InitVisiblePaymentMethods
    /\ focused = TRUE
    /\ focusCount = 1
    /\ settingsLoads = [g \in Gens |->
                          IF g = 1 THEN StartedLoad(InitVisibleCategories) ELSE IdleLoad]
    /\ toasts = <<>>
    /\ uuidCounter = 0
    /\ dispatchCount = 0
    /\ addedCount = 0
    /\ lastExpense = NoExpense
    /\ lastThrew = FALSE
    /\ amountFills = 0
    /\ lastWasSubmit = FALSE

----------------------------------------------------------------------------
(* Field setters bound to the inputs. *)
setAmount(text) ==
    /\ text # <<>> => amountFills < MaxFills
    /\ amount' = text
    /\ amountFills' = IF text # <<>> THEN amountFills + 1 ELSE amountFills
    /\ lastWasSubmit' = FALSE
    /\ UNCHANGED <<category, description, selectedDate, paymentMethod, group,
                   lists, feedback, loadState, focused, settingsStore, toasts, store>>

setCategory(sel) ==
    /\ category' = sel
    /\ lastWasSubmit' = FALSE
    /\ UNCHANGED <<amount, description, selectedDate, paymentMethod, group,
                   lists, feedback, loadState, focused, settingsStore, toasts, store,
                   amountFills>>

setPaymentMethod(sel) ==
    /\ paymentMethod' = sel
    /\ lastWasSubmit' = FALSE
    /\ UNCHANGED <<amount, category, description, selectedDate, group,
                   lists, feedback, loadState, focused, settingsStore, toasts, store,
                   amountFills>>

setGroup(sel) ==
    /\ group' = sel
    /\ lastWasSubmit' = FALSE
    /\ UNCHANGED <<amount, category, description, selectedDate, paymentMethod,
                   lists, feedback, loadState, focused, settingsStore, toasts, store,
                   amountFills>>

setDescription(text) ==
    /\ description' = text
    /\ lastWasSubmit' = FALSE
    /\ UNCHANGED <<amount, category, selectedDate, paymentMethod, group,
                   lists, feedback, loadState, focused, settingsStore, toasts, store,
                   amountFills>>

setSelectedDate(date) ==
    /\ selectedDate' = date
    /\ lastWasSubmit' = FALSE
    /\ UNCHANGED <<amount, category, description, paymentMethod, group,
                   lists, feedback, loadState, focused, settingsStore, toasts, store,
                   amountFills>>

handleDateConfirm(date) == setSelectedDate(date)

handleDateCancel ==
    /\ lastWasSubmit' = FALSE
    /\ UNCHANGED <<form, lists, feedback, loadState, focused, settingsStore, toasts,
                   store, amountFills>>

----------------------------------------------------------------------------
(* Feedback slot. *)
(* showFeedback with the success flag left as it was. *)
showFeedbackKeepsFlag(message, success) ==
    /\ feedbackMessage' = message
    /\ snackbarSuccess' = snackbarSuccess
    /\ isSnackbarVisible' = TRUE

showFeedback(message, success) ==
    /\ feedbackMessage' = message
    /\ snackbarSuccess' = success
    /\ isSnackbarVisible' = TRUE

handleSnackbarDismiss ==
    /\ isSnackbarVisible' = FALSE
    /\ lastWasSubmit' = FALSE
    /\ UNCHANGED <<form, lists, feedbackMessage, snackbarSuccess, loadState, focused,
                   settingsStore, toasts, store, amountFills>>

----------------------------------------------------------------------------
(* handleAddExpense. *)
(* FormIncomplete with the group check forgotten. *)
FormIncompleteNoGroup ==
    \/ amount = <<>>
    \/ Len(category) = 0
    \/ description = <<>>
    \/ Len(paymentMethod) = 0

FormIncomplete ==
    \/ amount = <<>>
    \/ Len(category) = 0
    \/ description = <<>>
    \/ Len(paymentMethod) = 0
    \/ Len(group) = 0

(* NewExpense with the picked date ignored. *)
NewExpenseAlwaysNow(id, now) ==
    [id |-> id,
     amount |-> parseFloat(amount),
     category |-> First(category),
     description |-> description,
     date |-> toISOString(now),
     paymentMethod |-> First(paymentMethod),
     group |-> First(group)]

NewExpense(id, now) ==
    [id |-> id,
     amount |-> parseFloat(amount),
     category |-> First(category),
     description |-> description,
     date |-> toISOString(IF selectedDate # undefined THEN selectedDate ELSE now),
     paymentMethod |-> First(paymentMethod),
     group |-> First(group)]

(* DefaultGroup with the selection kept instead of reset. *)
DefaultGroupKeepsSelection == group

DefaultGroup ==
    IF Len(availableGroups) > 0 THEN <<availableGroups[1].id>> ELSE <<>>

(* ResetForm with the amount left in the field. *)
ResetFormKeepsAmount ==
    /\ amount' = amount
    /\ category' = <<>>
    /\ description' = <<>>
    /\ selectedDate' = undefined
    /\ paymentMethod' = <<>>
    /\ group' = DefaultGroup

ResetForm ==
    /\ amount' = <<>>
    /\ category' = <<>>
    /\ description' = <<>>
    /\ selectedDate' = undefined
    /\ paymentMethod' = <<>>
    /\ group' = DefaultGroup

(* The try block after dispatch returned. *)
AddSucceeded ==
    /\ showFeedback("Expense added successfully", TRUE)
    /\ ResetForm

(* AddFailed with the form reset as on success. *)
AddFailedResets ==
    /\ showFeedback("Failed to add expense", FALSE)
    /\ ResetForm

(* The catch block. *)
AddFailed ==
    /\ showFeedback("Failed to add expense", FALSE)
    /\ UNCHANGED form

(* dispatch(addExpense(newExpense)): the store takes the record or throws. *)
dispatchAddExpense(expense, throws) ==
    /\ dispatchCount' = dispatchCount + 1
    /\ lastExpense' = expense
    /\ lastThrew' = throws
    /\ addedCount' = IF throws THEN addedCount ELSE addedCount + 1

handleAddExpense ==
    /\ lastWasSubmit' = TRUE
    /\ IF FormIncomplete
       THEN /\ showFeedback("Please fill out all fields", FALSE)
            /\ UNCHANGED <<form, store>>
       ELSE \E now \in Instants, throws \in BOOLEAN :
              /\ dispatchCount < MaxDispatch
              /\ uuidCounter' = uuidCounter + 1
              /\ dispatchAddExpense(NewExpense(generateUUID(uuidCounter), now), throws)
              /\ IF throws THEN AddFailed ELSE AddSucceeded
    /\ UNCHANGED <<lists, loadState, focused, settingsStore, toasts, amountFills>>

----------------------------------------------------------------------------
(* loadGroups, started by the mount effect. *)
showToast(message) == toasts' = Append(toasts, [message |-> message, type |-> "error"])

(* ApplyGroups with the default selection left out. *)
ApplyGroupsNoDefault(groups) ==
    /\ availableGroups' = MapOptions(groups)
    /\ group' = group

ApplyGroups(groups) ==
    LET groupList == MapOptions(groups)
    IN /\ availableGroups' = groupList
       /\ group' = IF Len(groupList) > 0 THEN <<groupList[1].id>> ELSE group

loadGroupsResolve(groups) ==
    /\ groupsLoad = "pending"
    /\ groupsLoad' = "done"
    /\ ApplyGroups(groups)
    /\ lastWasSubmit' = FALSE
    /\ UNCHANGED <<amount, category, description, selectedDate, paymentMethod,
                   availableCategories, availablePaymentMethods, feedback,
                   settingsLoads, focusCount, focused, settingsStore, toasts, store,
                   amountFills>>

loadGroupsReject ==
    /\ groupsLoad = "pending"
    /\ groupsLoad' = "failed"
    /\ showToast("Failed to load groups")
    /\ lastWasSubmit' = FALSE
    /\ UNCHANGED <<form, lists, feedback, settingsLoads, focusCount, focused,
                   settingsStore, store, amountFills>>

----------------------------------------------------------------------------
(* loadSettings, started by every focus-gain. *)
(* ApplyCategories with a cancellation guard: only the load of the latest *)
(* focus-gain is applied, and only while the screen is focused.          *)
ApplyCategoriesIfCurrent(g) ==
    availableCategories' =
        IF focused /\ g = focusCount
        THEN VisibleOptions(availableCategoriesList, settingsLoads[g].visibleCategories)
        ELSE availableCategories

ApplyCategories(g) ==
    availableCategories' =
        VisibleOptions(availableCategoriesList, settingsLoads[g].visibleCategories)

ApplyPaymentMethods(g) ==
    availablePaymentMethods' =
        VisibleOptions(availablePaymentMethodsList, settingsLoads[g].visiblePaymentMethods)

(* The first await resolves: the category list is set and the second fetch *)
(* is called.                                                              *)
getVisibleCategoriesResolve(g) ==
    /\ settingsLoads[g].pc = "categories"
    /\ ApplyCategories(g)
    /\ settingsLoads' = [settingsLoads EXCEPT
                           ![g].pc = "paymentMethods",
                           ![g].visiblePaymentMethods = visiblePaymentMethods]
    /\ lastWasSubmit' = FALSE
    /\ UNCHANGED <<form, availableGroups, availablePaymentMethods, feedback,
                   groupsLoad, focusCount, focused, settingsStore, toasts, store,
                   amountFills>>

getVisiblePaymentMethodsResolve(g) ==
    /\ settingsLoads[g].pc = "paymentMethods"
    /\ ApplyPaymentMethods(g)
    /\ settingsLoads' = [settingsLoads EXCEPT ![g].pc = "done"]
    /\ lastWasSubmit' = FALSE
    /\ UNCHANGED <<form, availableGroups, availableCategories, feedback,
                   groupsLoad, focusCount, focused, settingsStore, toasts, store,
                   amountFills>>

(* Either await rejects: the catch block. *)
loadSettingsReject(g) ==
    /\ settingsLoads[g].pc \in {"categories", "paymentMethods"}
    /\ settingsLoads' = [settingsLoads EXCEPT ![g].pc = "failed"]
    /\ showToast("Failed to load settings")
    /\ lastWasSubmit' = FALSE
    /\ UNCHANGED <<form, lists, feedback, groupsLoad, focusCount, focused,
                   settingsStore, store, amountFills>>

(* useFocusEffect: the callback runs at every focus-gain. *)
focusGained ==
    /\ ~focused
    /\ focusCount < MaxFocus
    /\ focused' = TRUE
    /\ focusCount' = focusCount + 1
    /\ settingsLoads' = [settingsLoads EXCEPT
                           ![focusCount + 1] = StartedLoad(visibleCategories)]
    /\ lastWasSubmit' = FALSE
    /\ UNCHANGED <<form, lists, feedback, groupsLoad, settingsStore, toasts, store,
                   amountFills>>

focusLost ==
    /\ focused
    /\ focused' = FALSE
    /\ lastWasSubmit' = FALSE
    /\ UNCHANGED <<form, lists, feedback, loadState, settingsStore, toasts, store,
                   amountFills>>

(* The settings screen flips a flag while this screen is in the background. *)
Toggled(vis, id) ==
    [k \in DOMAIN vis \cup {id} |-> IF k = id THEN ~IsVisible(vis, id) ELSE vis[k]]

toggleCategory(id) ==
    /\ ~focused
    /\ visibleCategories' = Toggled(visibleCategories, id)
    /\ lastWasSubmit' = FALSE
    /\ UNCHANGED <<form, lists, feedback, loadState, focused, visiblePaymentMethods,
                   toasts, store, amountFills>>

togglePaymentMethod(id) ==
    /\ ~focused
    /\ visiblePaymentMethods' = Toggled(visiblePaymentMethods, id)
    /\ lastWasSubmit' = FALSE
    /\ UNCHANGED <<form, lists, feedback, loadState, focused, visibleCategories,
                   toasts, store, amountFills>>

----------------------------------------------------------------------------
(* One visit of the screen: mounted and focused, the user fills in and     *)
(* submits the form while the mount's loads resolve.                       *)
Next ==
    \/ \E text \in AmountTexts : setAmount(text)
    \/ \E sel \in Selections(availableCategories) : setCategory(sel)
    \/ \E sel \in Selections(availablePaymentMethods) : setPaymentMethod(sel)
    \/ \E sel \in Selections(availableGroups) : setGroup(sel)
    \/ \E text \in DescriptionTexts : setDescription(text)
    \/ \E date \in Dates \cup {undefined} : setSelectedDate(date)
    \/ \E date \in Dates : handleDateConfirm(date)
    \/ handleDateCancel
    \/ handleAddExpense
    \/ handleSnackbarDismiss
    \/ \E groups \in GroupResults : loadGroupsResolve(groups)
    \/ loadGroupsReject
    \/ \E g \in Gens : getVisibleCategoriesResolve(g)
    \/ \E g \in Gens : getVisiblePaymentMethodsResolve(g)
    \/ \E g \in Gens : loadSettingsReject(g)

Spec == Init /\ [][Next]_vars

(* The loads of the screen across focus changes and settings changes; the  *)
(* user only picks a group.                                                *)
NextLoad ==
    \/ focusGained
    \/ focusLost
    \/ \E id \in ToggledCategories : toggleCategory(id)
    \/ \E id \in ToggledPaymentMethods : togglePaymentMethod(id)
    \/ \E g \in Gens : getVisibleCategoriesResolve(g)
    \/ \E g \in Gens : getVisiblePaymentMethodsResolve(g)
    \/ \E g \in Gens : loadSettingsReject(g)
    \/ \E groups \in GroupResults : loadGroupsResolve(groups)
    \/ loadGroupsReject
    \/ \E sel \in Selections(availableGroups) : setGroup(sel)

LoadSpec == Init /\ [][NextLoad]_vars

----------------------------------------------------------------------------
(* Properties of the submit handler. *)

AnyFieldEmpty ==
    \/ amount = <<>>
    \/ category = <<>>
    \/ description = <<>>
    \/ paymentMethod = <<>>
    \/ group = <<>>

FeedbackIs(message, success) ==
    /\ isSnackbarVisible'
    /\ feedbackMessage' = message
    /\ snackbarSuccess' = success

(* C1: a submit on a form with amount, description, category, payment     *)
(* method or group empty dispatches nothing, leaves the six form fields    *)
(* unchanged and shows "Please fill out all fields" as a failure; hence a  *)
(* record is only ever dispatched from a form with all five non-empty.     *)
C1_IncompleteFormIsRejected ==
    [][ /\ (lastWasSubmit' /\ AnyFieldEmpty) =>
              /\ store' = store
              /\ form' = form
              /\ FeedbackIs("Please fill out all fields", FALSE)
        /\ (dispatchCount' # dispatchCount) => ~AnyFieldEmpty
      ]_vars

C1_Witness ==
    /\ lastWasSubmit
    /\ isSnackbarVisible
    /\ feedbackMessage = "Please fill out all fields"
    /\ amount # <<>> /\ category # <<>> /\ description # <<>> /\ paymentMethod # <<>>
    /\ group = <<>>
    /\ dispatchCount = 0

(* The numbers the amount texts of the model denote. *)
Number(mant, exp) == [mant |-> mant, exp |-> exp]
AmountValue(text) ==
    CASE text = <<"1", "2", ".", "5", "0">> -> Number(125, 1)
      [] text = <<"5", "x">> -> Number(5, 0)
      [] text = <<"x">> -> NaN

(* C2: a submit on a form with all five fields non-empty hands exactly one *)
(* record to the store dispatch: a fresh id, category, paymentMethod and   *)
(* group the first elements of their selections, the description text, the *)
(* amount parsed from the amount text, and as date the picked date if one  *)
(* is set, otherwise the instant of the submit.                            *)
C2_CompleteFormDispatchesOneRecord ==
    [][ (lastWasSubmit' /\ ~AnyFieldEmpty) =>
          /\ dispatchCount' = dispatchCount + 1
          /\ lastExpense'.id = generateUUID(uuidCounter)
          /\ uuidCounter' > uuidCounter
          /\ lastExpense'.category = category[1]
          /\ lastExpense'.paymentMethod = paymentMethod[1]
          /\ lastExpense'.group = group[1]
          /\ lastExpense'.description = description
          /\ lastExpense'.amount = AmountValue(amount)
          /\ IF selectedDate # undefined
             THEN lastExpense'.date = toISOString(selectedDate)
             ELSE lastExpense'.date \in { toISOString(now) : now \in Instants }
      ]_vars

C2_Witness ==
    /\ lastWasSubmit
    /\ dispatchCount = 2
    /\ lastExpense # NoExpense
    /\ lastExpense.id = [uuid |-> 2]
    /\ lastExpense.amount = Number(125, 1)
    /\ lastExpense.category = "food"
    /\ lastExpense.paymentMethod = "cash"
    /\ lastExpense.group = "g2"
    /\ lastExpense.date = [iso |-> "Jan10"]

(* C3: right after a submit whose dispatch succeeded the form is reset,   *)
(* amount "", category [], description "", selectedDate undefined,         *)
(* paymentMethod [], group [id of the first loaded group] or [] if no      *)
(* group is loaded, and the feedback slot shows "Expense added             *)
(* successfully" as a success.                                             *)
C3_SuccessResetsForm ==
    [][ (lastWasSubmit' /\ addedCount' = addedCount + 1) =>
          /\ amount' = <<>>
          /\ category' = <<>>
          /\ description' = <<>>
          /\ selectedDate' = undefined
          /\ paymentMethod' = <<>>
          /\ group' = IF availableGroups # <<>> THEN <<availableGroups[1].id>> ELSE <<>>
          /\ FeedbackIs("Expense added successfully", TRUE)
      ]_vars

C3_Witness ==
    /\ lastWasSubmit
    /\ addedCount = 1
    /\ ~lastThrew
    /\ lastExpense # NoExpense
    /\ lastExpense.group = "g2"
    /\ lastExpense.date = [iso |-> "Jan10"]
    /\ group = <<"g1">>
    /\ selectedDate = undefined
    /\ amount = <<>>
    /\ feedbackMessage = "Expense added successfully"

(* C4: if the store dispatch throws during a submit that passed           *)
(* validation, the six form fields are as they were before the submit and  *)
(* the feedback slot shows "Failed to add expense" as a failure; the       *)
(* handler itself completes.                                               *)
C4_ThrowingDispatchKeepsForm ==
    [][ (lastWasSubmit' /\ dispatchCount' = dispatchCount + 1 /\ lastThrew') =>
          /\ form' = form
          /\ ~AnyFieldEmpty'
          /\ addedCount' = addedCount
          /\ FeedbackIs("Failed to add expense", FALSE)
      ]_vars

C4_Witness ==
    /\ lastWasSubmit
    /\ lastThrew
    /\ dispatchCount = 1
    /\ addedCount = 0
    /\ ~AnyFieldEmpty
    /\ selectedDate = "Jan10"
    /\ isSnackbarVisible
    /\ feedbackMessage = "Failed to add expense"

(* C8: the feedback slot holds one message.  Every submit overwrites the  *)
(* message and the success flag with its own and makes the slot visible,   *)
(* dismissal only clears the visibility flag, a visible slot has the       *)
(* success flag set exactly when its message is "Expense added             *)
(* successfully", and no load step (a failure included) changes the slot.  *)
SubmitFeedback ==
    { <<"Please fill out all fields", FALSE>>,
      <<"Failed to add expense", FALSE>>,
      <<"Expense added successfully", TRUE>> }

C8_SingleFeedbackSlot ==
    /\ [](isSnackbarVisible =>
            (snackbarSuccess <=> feedbackMessage = "Expense added successfully"))
    /\ [][ /\ lastWasSubmit' =>
                /\ isSnackbarVisible'
                /\ <<feedbackMessage', snackbarSuccess'>> \in SubmitFeedback
                /\ (snackbarSuccess' <=> addedCount' = addedCount + 1)
           /\ (isSnackbarVisible /\ ~isSnackbarVisible') =>
                /\ feedbackMessage' = feedbackMessage
                /\ snackbarSuccess' = snackbarSuccess
           /\ (loadState' # loadState \/ toasts' # toasts) => feedback' = feedback
         ]_vars

C8_Witness ==
    /\ ~isSnackbarVisible
    /\ feedbackMessage = "Please fill out all fields"
    /\ ~snackbarSuccess
    /\ ~lastWasSubmit
    /\ Len(toasts) = 2

----------------------------------------------------------------------------
(* Properties of the loads. *)

(* C5: when the group load of the mount resolves with a non-empty list,   *)
(* the available groups become that list projected to {id, name} and the   *)
(* group selection becomes [id of its first entry]; when it resolves with  *)
(* an empty list the group selection is left unchanged.                    *)
C5_GroupLoadSelectsFirstGroup ==
    [][ (groupsLoad = "pending" /\ groupsLoad' = "done") =>
          \E groups \in GroupResults :
            /\ availableGroups' =
                 [i \in 1..Len(groups) |-> [id |-> groups[i].id, name |-> groups[i].name]]
            /\ groups # <<>> => group' = <<groups[1].id>>
            /\ groups = <<>> => group' = group
      ]_vars

C5_Witness ==
    /\ groupsLoad = "done"
    /\ availableGroups = <<[id |-> "g1", name |-> "Home"], [id |-> "g2", name |-> "Trip"]>>
    /\ group = <<"g1">>
    /\ amount = <<>> /\ category = <<>> /\ description = <<>>
    /\ ~lastWasSubmit
    /\ dispatchCount = 0

(* The options of a master list whose flag in a fetched map is true. *)
ShowsExactly(options, master, vis) ==
    /\ \A i \in 1..Len(master) :
         (master[i].id \in DOMAIN vis /\ vis[master[i].id] = TRUE)
            <=> (\E j \in 1..Len(options) :
                   options[j] = [id |-> master[i].id, name |-> master[i].name])
    /\ Len(options) <= Len(master)

(* C6: once the settings load of a focus-gain has succeeded, the          *)
(* available category list holds exactly the categories whose visibility   *)
(* flag that load found true (a false or missing flag keeps a category     *)
(* out), and so until the next focus-gain; the same for payment methods.   *)
C6_ListsFollowLatestFocus ==
    \A g \in Gens :
        (g = focusCount /\ settingsLoads[g].pc = "done") =>
            /\ ShowsExactly(availableCategories, availableCategoriesList,
                            settingsLoads[g].visibleCategories)
            /\ ShowsExactly(availablePaymentMethods, availablePaymentMethodsList,
                            settingsLoads[g].visiblePaymentMethods)

(* C7: a failed load emits exactly one error toast for its pass and       *)
(* leaves the available lists and the group selection as they were before  *)
(* the pass began: the group fetch of the mount began with no groups and   *)
(* no selection, and the settings pass of the mount, the only writer of    *)
(* the category and payment-method lists until a second focus-gain, began  *)
(* with both lists empty.                                                  *)
FailedPasses ==
    (IF groupsLoad = "failed" THEN 1 ELSE 0)
      + Cardinality({ g \in Gens : settingsLoads[g].pc = "failed" })

C7_FailedLoadChangesNothing ==
    /\ Len(toasts) = FailedPasses
    /\ groupsLoad = "failed" => (availableGroups = <<>> /\ group = <<>>)
    /\ (focusCount = 1 /\ settingsLoads[1].pc = "failed") =>
          (availableCategories = <<>> /\ availablePaymentMethods = <<>>)

(* C9: a settings load is never cancelled: whenever one of its fetches    *)
(* resolves, whether or not the screen is still focused and whatever later *)
(* loads have done, its result is applied, so the lists show the fetch     *)
(* that resolved last.                                                     *)
C9_LastResolvedWins ==
    [][ \A g \in Gens :
          /\ (settingsLoads[g].pc = "categories"
                /\ settingsLoads'[g].pc = "paymentMethods") =>
                ShowsExactly(availableCategories', availableCategoriesList,
                             settingsLoads[g].visibleCategories)
          /\ (settingsLoads[g].pc = "paymentMethods" /\ settingsLoads'[g].pc = "done") =>
                ShowsExactly(availablePaymentMethods', availablePaymentMethodsList,
                             settingsLoads[g].visiblePaymentMethods)
      ]_vars

(* The load of the first focus-gain resolved its category fetch after the *)
(* load of the second one finished, in the background.                     *)
C9_Witness ==
    /\ ~focused
    /\ focusCount = 2
    /\ settingsLoads[2].pc = "done"
    /\ settingsLoads[1].pc = "paymentMethods"
    /\ ShowsExactly(availableCategories, availableCategoriesList,
                    settingsLoads[1].visibleCategories)
    /\ ~ShowsExactly(availableCategories, availableCategoriesList,
                     settingsLoads[2].visibleCategories)

====
